---------------------------- MODULE Spec2Model ----------------------------
(***************************************************************************)
(* A model of the campaign simulation scripts simulate.py (variant 1: the  *)
(* command line with overridable assumptions) and simulation.py (variant   *)
(* 2: the fixed table written to a CSV file and a chart).                  *)
(*                                                                         *)
(* Text (command line tokens, CSV files, console lines) is a sequence of   *)
(* one-character strings.  A Python float is modelled as a decimal         *)
(* floating point number [m |-> mantissa, e |-> exponent] of value         *)
(* m * 10^e, with at most SigDigits significant digits, rounded to nearest *)
(* with ties to even after every operation, as binary64 is; the radix and  *)
(* the precision differ from CPython's, and infinities, NaN, the negative  *)
(* zero and the exponent range are left out.  The canonical form has a     *)
(* mantissa that is no multiple of 10 (zero is m = 0, e = 0), so equal     *)
(* floats are equal records.                                               *)
(***************************************************************************)
EXTENDS Integers, Sequences, FiniteSets

(***************************************************************************)
(* Numbers                                                                 *)
(***************************************************************************)

\* Significant decimal digits a float keeps.
SigDigits == 8

RECURSIVE Pow10(_)
Pow10(k) == IF k <= 0 THEN 1 ELSE 10 * Pow10(k - 1)

Abs(n) == IF n < 0 THEN 0 - n ELSE n

Sgn(n) == IF n < 0 THEN 0 - 1 ELSE 1

RECURSIVE NumDigits(_)
NumDigits(n) == IF n < 10 THEN 1 ELSE 1 + NumDigits(n \div 10)

\* The decimal digits of a natural number, most significant first.
RECURSIVE NatDigits(_)
NatDigits(n) == IF n < 10 THEN <<n>> ELSE Append(NatDigits(n \div 10), n % 10)

\* The natural number a sequence of digits denotes.
RECURSIVE DigitsNat(_)
DigitsNat(ds) ==
    IF ds = <<>> THEN 0
    ELSE 10 * DigitsNat(SubSeq(ds, 1, Len(ds) - 1)) + ds[Len(ds)]

Zero == [m |-> 0, e |-> 0]

\* The canonical float of magnitude n * 10^e, n >= 0.
RECURSIVE Canon(_, _)
Canon(n, e) ==
    IF n = 0 THEN Zero
    ELSE IF n % 10 = 0 THEN Canon(n \div 10, e + 1)
    ELSE [m |-> n, e |-> e]

Signed(s, f) == [m |-> s * f.m, e |-> f.e]

\* int -> float, as in the mixed arithmetic budget / cpv.
FromInt(n) == Signed(Sgn(n), Canon(Abs(n), 0))

\* Round-half-even: whether a kept part is rounded up given the dropped
\* part rem out of unit (rem < unit).
RoundsUp(keep, rem, unit) ==
    \/ 2 * rem > unit
    \/ 2 * rem = unit /\ keep % 2 = 1

\* The magnitude (hi * 10^SigDigits + lo) * 10^e rounded to SigDigits digits.
RoundMag(hi, lo, e) ==
    IF hi = 0 THEN Canon(lo, e)
    ELSE LET k    == NumDigits(hi)
             keep == hi * Pow10(SigDigits - k) + lo \div Pow10(k)
             rem  == lo % Pow10(k)
             up   == \/ rem > 5 * Pow10(k - 1)
                     \/ rem = 5 * Pow10(k - 1) /\ keep % 2 = 1
         IN  Canon(keep + (IF up THEN 1 ELSE 0), e + k)

\* Python's float * float.  The product of the two mantissas is formed in
\* halves of SigDigits / 2 digits.
FMul(a, b) ==
    IF a.m = 0 \/ b.m = 0 THEN Zero
    ELSE LET h     == Pow10(SigDigits \div 2)
             x     == Abs(a.m)
             y     == Abs(b.m)
             p11   == (x \div h) * (y \div h)
             cross == (x \div h) * (y % h) + (x % h) * (y \div h)
             low   == (cross % h) * h + (x % h) * (y % h)
             lo    == low % (h * h)
             hi    == p11 + cross \div h + low \div (h * h)
         IN  Signed(Sgn(a.m) * Sgn(b.m), RoundMag(hi, lo, a.e + b.e))

\* Long division: q * 10^e is the quotient so far and r the remainder.
RECURSIVE DivLoop(_, _, _, _)
DivLoop(q, r, y, e) ==
    IF q >= Pow10(SigDigits - 1) \/ r = 0
    THEN Canon(q + (IF RoundsUp(q, r, y) THEN 1 ELSE 0), e)
    ELSE DivLoop(q * 10 + (r * 10) \div y, (r * 10) % y, y, e - 1)

\* Python's float / float for a non-zero divisor (a zero divisor raises
\* ZeroDivisionError, which the callers model).
FDiv(a, b) ==
    IF a.m = 0 THEN Zero
    ELSE Signed(Sgn(a.m) * Sgn(b.m),
                DivLoop(Abs(a.m) \div Abs(b.m), Abs(a.m) % Abs(b.m),
                        Abs(b.m), a.e - b.e))

\* Order of floats.  MagKey orders the magnitudes of non-zero floats.
MagKey(a) ==
    LET n == NumDigits(Abs(a.m))
    IN  <<n + a.e, Abs(a.m) * Pow10(SigDigits - n)>>

MagLess(a, b) ==
    \/ MagKey(a)[1] < MagKey(b)[1]
    \/ MagKey(a)[1] = MagKey(b)[1] /\ MagKey(a)[2] < MagKey(b)[2]

FLess(a, b) ==
    CASE a.m = 0 -> b.m > 0
      [] b.m = 0 -> a.m < 0
      [] a.m < 0 /\ b.m > 0 -> TRUE
      [] a.m > 0 /\ b.m < 0 -> FALSE
      [] a.m > 0 /\ b.m > 0 -> MagLess(a, b)
      [] OTHER -> MagLess(b, a)

FLeq(a, b) == a = b \/ FLess(a, b)


(***************************************************************************)
(* Text                                                                    *)
(***************************************************************************)

DigitChars == <<"0", "1", "2", "3", "4", "5", "6", "7", "8", "9">>

IsDigit(c) == \E i \in 1..10 : DigitChars[i] = c

DigitVal(c) == (CHOOSE i \in 1..10 : DigitChars[i] = c) - 1

DigitText(ds) == [i \in 1..Len(ds) |-> DigitChars[ds[i] + 1]]

AllDigits(t) == \A i \in 1..Len(t) : IsDigit(t[i])

TextDigits(t) == [i \in 1..Len(t) |-> DigitVal(t[i])]

Repeat(c, n) == IF n <= 0 THEN <<>> ELSE [i \in 1..n |-> c]

Tail2(t, i) == SubSeq(t, i, Len(t))

\* The first index of t holding a character of cs, or 0.
FirstOf(t, cs) ==
    IF \E i \in 1..Len(t) : t[i] \in cs
    THEN CHOOSE i \in 1..Len(t) : t[i] \in cs /\ \A j \in 1..(i - 1) : t[j] \notin cs
    ELSE 0

\* str(int).
IntStr(n) == (IF n < 0 THEN <<"-">> ELSE <<>>) \o DigitText(NatDigits(Abs(n)))

\* repr(float), which is what str() and csv give for a float: the shortest
\* digits that read back as the same float, in positional notation when the
\* decimal point falls in -4 < decpt <= 16 and in exponent notation otherwise.
Repr(a) ==
    LET ds    == NatDigits(Abs(a.m))
        n     == Len(ds)
        decpt == n + a.e
        sign  == IF a.m < 0 THEN <<"-">> ELSE <<>>
        ex    == decpt - 1
        exds  == IF Abs(ex) < 10 THEN <<0>> \o NatDigits(Abs(ex)) ELSE NatDigits(Abs(ex))
    IN  sign \o
        (IF a.m = 0 THEN <<"0", ".", "0">>
         ELSE IF decpt > 16 \/ decpt < 0 - 3
         THEN <<DigitChars[ds[1] + 1]>>
              \o (IF n > 1 THEN <<".">> \o DigitText(Tail2(ds, 2)) ELSE <<>>)
              \o <<"e", IF ex < 0 THEN "-" ELSE "+">> \o DigitText(exds)
         ELSE IF decpt <= 0
         THEN <<"0", ".">> \o Repeat("0", 0 - decpt) \o DigitText(ds)
         ELSE IF decpt >= n
         THEN DigitText(ds) \o Repeat("0", decpt - n) \o <<".", "0">>
         ELSE DigitText(SubSeq(ds, 1, decpt)) \o <<".">> \o DigitText(Tail2(ds, decpt + 1)))

\* Python's format(x, ".<k>f") of a float: the value rounded half-even to k
\* decimals, with at least one digit before the point.
Format(a, k) ==
    LET n    == NumDigits(Abs(a.m))
        cut  == 0 - (a.e + k)
        keep == IF cut > n THEN 0 ELSE Abs(a.m) \div Pow10(cut)
        rem  == IF cut > n THEN 0 ELSE Abs(a.m) % Pow10(cut)
        up   == cut <= n /\ RoundsUp(keep, rem, Pow10(cut))
        ds   == IF cut <= 0
                THEN (IF a.m = 0 THEN <<0>> ELSE NatDigits(Abs(a.m)) \o Repeat(0, 0 - cut))
                ELSE NatDigits(keep + (IF up THEN 1 ELSE 0))
        full == Repeat(0, k + 1 - Len(ds)) \o ds
        ip   == Len(full) - k
    IN  (IF a.m < 0 THEN <<"-">> ELSE <<>>)
        \o DigitText(SubSeq(full, 1, ip))
        \o (IF k > 0 THEN <<".">> \o DigitText(Tail2(full, ip + 1)) ELSE <<>>)

\* The format specs "<w" and ">w": padding with spaces to a width.
PadRight(t, w) == t \o Repeat(" ", w - Len(t))

PadLeft(t, w) == Repeat(" ", w - Len(t)) \o t

\* The ValueError of float() and int().
ValueError == [exc |-> "ValueError"]

IsExc(v) == "exc" \in DOMAIN v

\* The float of a sequence of digits times 10^e, rounded to SigDigits digits.
RECURSIVE StripZeros(_)
StripZeros(ds) == IF ds # <<>> /\ ds[1] = 0 THEN StripZeros(Tail(ds)) ELSE ds

AnyNonZero(ds) == \E i \in 1..Len(ds) : ds[i] # 0

RoundDigits(digits, e) ==
    LET ds == StripZeros(digits)
    IN  IF Len(ds) <= SigDigits THEN Canon(DigitsNat(ds), e)
        ELSE LET keep == DigitsNat(SubSeq(ds, 1, SigDigits))
                 d    == ds[SigDigits + 1]
                 rest == AnyNonZero(Tail2(ds, SigDigits + 2))
                 up   == \/ d > 5
                         \/ d = 5 /\ rest
                         \/ d = 5 /\ ~rest /\ keep % 2 = 1
             IN  Canon(keep + (IF up THEN 1 ELSE 0), e + Len(ds) - SigDigits)

\* float(text) for the decimal numerals [sign] digits [. digits] [e [sign]
\* digits]; any other text raises ValueError.
ParseFloat(t) ==
    LET signed == t # <<>> /\ t[1] \in {"+", "-"}
        neg    == signed /\ t[1] = "-"
        body   == IF signed THEN Tail(t) ELSE t
        ePos   == FirstOf(body, {"e", "E"})
        mant   == IF ePos = 0 THEN body ELSE SubSeq(body, 1, ePos - 1)
        expo   == IF ePos = 0 THEN <<>> ELSE Tail2(body, ePos + 1)
        eSgn   == expo # <<>> /\ expo[1] \in {"+", "-"}
        eDig   == IF eSgn THEN Tail(expo) ELSE expo
        dot    == FirstOf(mant, {"."})
        ip     == IF dot = 0 THEN mant ELSE SubSeq(mant, 1, dot - 1)
        fp     == IF dot = 0 THEN <<>> ELSE Tail2(mant, dot + 1)
        ok     == /\ AllDigits(ip)
                  /\ AllDigits(fp)
                  /\ Len(ip) + Len(fp) > 0
                  /\ (ePos # 0 => (eDig # <<>> /\ AllDigits(eDig)))
        ex     == IF ePos = 0 THEN 0
                  ELSE (IF expo[1] = "-" THEN 0 - 1 ELSE 1) * DigitsNat(TextDigits(eDig))
    IN  IF ~ok THEN ValueError
        ELSE Signed(IF neg THEN 0 - 1 ELSE 1,
                    RoundDigits(TextDigits(ip \o fp), ex - Len(fp)))

\* int(text) for [sign] digits.
ParseInt(t) ==
    LET signed == t # <<>> /\ t[1] \in {"+", "-"}
        body   == IF signed THEN Tail(t) ELSE t
    IN  IF body = <<>> \/ ~AllDigits(body) THEN ValueError
        ELSE [int |-> (IF signed /\ t[1] = "-" THEN 0 - 1 ELSE 1) * DigitsNat(TextDigits(body))]


(***************************************************************************)
(* simulate.py: run_scenarios                                              *)
(***************************************************************************)

ZeroDivisionError == [exc |-> "ZeroDivisionError"]

\* The names of the scenarios and of the row keys, as text.
KeyText ==
    [Scenario    |-> <<"S", "c", "e", "n", "a", "r", "i", "o">>,
     Budget      |-> <<"B", "u", "d", "g", "e", "t">>,
     Days        |-> <<"D", "a", "y", "s">>,
     Views       |-> <<"V", "i", "e", "w", "s">>,
     Clicks      |-> <<"C", "l", "i", "c", "k", "s">>,
     Conversions |-> <<"C", "o", "n", "v", "e", "r", "s", "i", "o", "n", "s">>,
     Revenue     |-> <<"R", "e", "v", "e", "n", "u", "e">>,
     Profit      |-> <<"P", "r", "o", "f", "i", "t">>,
     ROI         |-> <<"R", "O", "I">>]

Small == <<"S", "m", "a", "l", "l">>

Baseline == <<"B", "a", "s", "e", "l", "i", "n", "e">>

Large == <<"L", "a", "r", "g", "e">>

Long == <<"L", "o", "n", "g">>


\* The loop body without the guard of the ROI: revenue / budget raises for a
\* zero budget.
ScenarioRowNoGuard(name, budget, days, cpv, ctr, conv, revenue_per_sale, profit_per_sale) ==
    IF cpv.m = 0 \/ budget = 0 THEN [exc |-> "ZeroDivisionError"]
    ELSE LET views       == FDiv(FromInt(budget), cpv)
             clicks      == FMul(views, ctr)
             conversions == FMul(clicks, conv)
             revenue     == FMul(conversions, revenue_per_sale)
             profit      == FMul(conversions, profit_per_sale)
         IN  [Scenario |-> name, Budget |-> budget, Days |-> days, Views |-> views,
              Clicks |-> clicks, Conversions |-> conversions, Revenue |-> revenue,
              Profit |-> profit, ROI |-> FDiv(revenue, FromInt(budget))]

\* The loop body with the ROI of simulation.py: profit / budget.
ScenarioRowProfitRoi(name, budget, days, cpv, ctr, conv, revenue_per_sale, profit_per_sale) ==
    IF cpv.m = 0 THEN [exc |-> "ZeroDivisionError"]
    ELSE LET views       == FDiv(FromInt(budget), cpv)
             clicks      == FMul(views, ctr)
             conversions == FMul(clicks, conv)
             revenue     == FMul(conversions, revenue_per_sale)
             profit      == FMul(conversions, profit_per_sale)
         IN  [Scenario |-> name, Budget |-> budget, Days |-> days, Views |-> views,
              Clicks |-> clicks, Conversions |-> conversions, Revenue |-> revenue,
              Profit |-> profit,
              ROI |-> IF budget # 0 THEN FDiv(profit, FromInt(budget)) ELSE Zero]

\* The loop body with the conversions taken from the views, not the clicks.
ScenarioRowSkipClicks(name, budget, days, cpv, ctr, conv, revenue_per_sale, profit_per_sale) ==
    IF cpv.m = 0 THEN [exc |-> "ZeroDivisionError"]
    ELSE LET views       == FDiv(FromInt(budget), cpv)
             clicks      == FMul(views, ctr)
             conversions == FMul(views, conv)
             revenue     == FMul(conversions, revenue_per_sale)
             profit      == FMul(conversions, profit_per_sale)
         IN  [Scenario |-> name, Budget |-> budget, Days |-> days, Views |-> views,
              Clicks |-> clicks, Conversions |-> conversions, Revenue |-> revenue,
              Profit |-> profit,
              ROI |-> IF budget # 0 THEN FDiv(revenue, FromInt(budget)) ELSE Zero]

\* One pass of the loop body over a scenario: the row appended to results,
\* or the ZeroDivisionError that budget / cpv raises for a zero cpv.
ScenarioRow(name, budget, days, cpv, ctr, conv, revenue_per_sale, profit_per_sale) ==
    IF cpv.m = 0 THEN ZeroDivisionError
    ELSE LET views       == FDiv(FromInt(budget), cpv)
             clicks      == FMul(views, ctr)
             conversions == FMul(clicks, conv)
             revenue     == FMul(conversions, revenue_per_sale)
             profit      == FMul(conversions, profit_per_sale)
             roi         == IF budget # 0 THEN FDiv(revenue, FromInt(budget)) ELSE Zero
         IN  [Scenario    |-> name,
              Budget      |-> budget,
              Days        |-> days,
              Views       |-> views,
              Clicks      |-> clicks,
              Conversions |-> conversions,
              Revenue     |-> revenue,
              Profit      |-> profit,
              ROI         |-> roi]


\* The scenario table with Baseline on the parameters of the large tier.
ScenariosBaselineLarge(p) ==
    << [name |-> Small,    budget |-> 100, days |-> 5,
        cpv |-> p.cpv_small, ctr |-> p.ctr_small, conv |-> p.conv_small],
       [name |-> Baseline, budget |-> 200, days |-> 10,
        cpv |-> p.cpv_large, ctr |-> p.ctr_large, conv |-> p.conv_large],
       [name |-> Large,    budget |-> 500, days |-> 30,
        cpv |-> p.cpv_large, ctr |-> p.ctr_large, conv |-> p.conv_large],
       [name |-> Long,     budget |-> 400, days |-> 60,
        cpv |-> p.cpv_large, ctr |-> p.ctr_large, conv |-> p.conv_large] >>

\* The scenario table of run_scenarios for the parameters p.
Scenarios(p) ==
    << [name |-> Small,    budget |-> 100, days |-> 5,
        cpv |-> p.cpv_small, ctr |-> p.ctr_small, conv |-> p.conv_small],
       [name |-> Baseline, budget |-> 200, days |-> 10,
        cpv |-> p.cpv_small, ctr |-> p.ctr_small, conv |-> p.conv_small],
       [name |-> Large,    budget |-> 500, days |-> 30,
        cpv |-> p.cpv_large, ctr |-> p.ctr_large, conv |-> p.conv_large],
       [name |-> Long,     budget |-> 400, days |-> 60,
        cpv |-> p.cpv_large, ctr |-> p.ctr_large, conv |-> p.conv_large] >>

\* The outcome of a call that returns a list.
Returned(list) == [value |-> list]

\* run_scenarios(**p): the list of rows returned, or the exception of the
\* first scenario that raises one.
RunScenarios(p) ==
    LET sc   == Scenarios(p)
        rows == [i \in 1..Len(sc) |->
                    ScenarioRow(sc[i].name, sc[i].budget, sc[i].days, sc[i].cpv,
                                sc[i].ctr, sc[i].conv,
                                p.revenue_per_sale, p.profit_per_sale)]
    IN  IF \E i \in 1..Len(sc) : IsExc(rows[i]) THEN ZeroDivisionError ELSE Returned(rows)


(***************************************************************************)
(* simulate.py: save_to_csv, and the csv module it writes with             *)
(***************************************************************************)

\* fieldnames of save_to_csv: the row keys in the order of the columns.
FieldNames ==
    <<"Scenario", "Budget", "Days", "Views", "Clicks", "Conversions",
      "Revenue", "Profit", "ROI">>

IntKeys == {"Budget", "Days"}


\* The values written with two decimals, as a report would show them.
StrOfRounded(key, value) ==
    IF key = "Scenario" THEN value
    ELSE IF key \in IntKeys THEN IntStr(value)
    ELSE Format(value, 2)

\* str(value) of a row's value: the text itself, str(int) or repr(float).
StrOf(key, value) ==
    IF key = "Scenario" THEN value
    ELSE IF key \in IntKeys THEN IntStr(value)
    ELSE Repr(value)

RECURSIVE Join(_, _)
Join(parts, sep) ==
    IF parts = <<>> THEN <<>>
    ELSE IF Len(parts) = 1 THEN parts[1]
    ELSE parts[1] \o sep \o Join(Tail(parts), sep)

RECURSIVE Concat(_)
Concat(parts) == IF parts = <<>> THEN <<>> ELSE parts[1] \o Concat(Tail(parts))

\* csv's QUOTE_MINIMAL: a field holding the delimiter, the quote character or
\* a character of the line terminator is quoted, its quotes doubled.
CsvSpecial == {",", "\"", "\r", "\n"}

CsvField(t) ==
    IF \E i \in 1..Len(t) : t[i] \in CsvSpecial
    THEN <<"\"">>
         \o Concat([i \in 1..Len(t) |-> IF t[i] = "\"" THEN <<"\"", "\"">> ELSE <<t[i]>>])
         \o <<"\"">>
    ELSE t

CsvLine(fields, terminator) ==
    Join([i \in 1..Len(fields) |-> CsvField(fields[i])], <<",">>) \o terminator

\* DictWriter.writeheader and DictWriter.writerow: the fields of a row in
\* the order of fieldnames.
HeaderFields == [i \in 1..Len(FieldNames) |-> KeyText[FieldNames[i]]]

RowFields(row) == [i \in 1..Len(FieldNames) |-> StrOf(FieldNames[i], row[FieldNames[i]])]

\* What save_to_csv writes to the file: the header, then one line per row,
\* each ended by the csv module's line terminator.
SaveToCsvText(rows) ==
    CsvLine(HeaderFields, <<"\r", "\n">>)
    \o Concat([i \in 1..Len(rows) |-> CsvLine(RowFields(rows[i]), <<"\r", "\n">>)])

\* csv.reader over the text of a file: the records and their fields.  A
\* position is inside a quoted field when an odd number of quote characters
\* precedes it; the delimiters and line ends outside quoted fields separate
\* the fields and the records.
Quotes(t) == {i \in 1..Len(t) : t[i] = "\""}

Outside(t, i) == Cardinality({j \in Quotes(t) : j < i}) % 2 = 0

RecordEnds(t) ==
    {i \in 1..Len(t) :
        /\ Outside(t, i)
        /\ \/ t[i] = "\n"
           \/ t[i] = "\r" /\ ~(i < Len(t) /\ t[i + 1] = "\n")}

Delimiters(t) == {i \in 1..Len(t) : t[i] = "," /\ Outside(t, i)}

\* The least element of S from i on, or 0.
NextIn(S, i) ==
    IF \E j \in S : j >= i
    THEN CHOOSE j \in S : j >= i /\ \A k \in S : k >= i => j <= k
    ELSE 0

\* A field as written to the value it holds: the enclosing quotes dropped
\* and the doubled quotes inside them halved.
RECURSIVE Undouble(_)
Undouble(f) ==
    IF f = <<>> THEN <<>>
    ELSE IF Len(f) >= 2 /\ f[1] = "\"" /\ f[2] = "\""
    THEN <<"\"">> \o Undouble(Tail(Tail(f)))
    ELSE <<f[1]>> \o Undouble(Tail(f))

Unquote(f) ==
    IF Len(f) >= 2 /\ f[1] = "\"" /\ f[Len(f)] = "\""
    THEN Undouble(SubSeq(f, 2, Len(f) - 1))
    ELSE f

RECURSIVE CsvFields(_, _, _)
CsvFields(t, i, hi) ==
    LET c == NextIn({d \in Delimiters(t) : d <= hi}, i)
    IN  IF c = 0 THEN <<Unquote(SubSeq(t, i, hi))>>
        ELSE <<Unquote(SubSeq(t, i, c - 1))>> \o CsvFields(t, c + 1, hi)

RECURSIVE CsvRecords(_, _)
CsvRecords(t, i) ==
    IF i > Len(t) THEN <<>>
    ELSE LET e  == NextIn(RecordEnds(t), i)
             hi == IF e = 0 THEN Len(t)
                   ELSE IF t[e] = "\n" /\ e > i /\ t[e - 1] = "\r" THEN e - 2
                   ELSE e - 1
         IN  <<CsvFields(t, i, hi)>>
             \o (IF e = 0 THEN <<>> ELSE CsvRecords(t, e + 1))

ReadCsv(t) == CsvRecords(t, 1)

(***************************************************************************)
(* simulate.py: parse_args and the console table of main                   *)
(***************************************************************************)

\* Python's None, which no text equals.
None == <<"None">>

FloatFlags ==
    {"cpv_small", "cpv_large", "ctr_small", "ctr_large", "conv_small",
     "conv_large", "revenue_per_sale", "profit_per_sale"}

Flags == FloatFlags \cup {"output"}


\* The defaults with the cost per view of the two tiers exchanged.
DefaultsTiersExchanged ==
    [output           |-> None,
     cpv_small        |-> [m |-> 5, e |-> 0 - 2],
     cpv_large        |-> [m |-> 6, e |-> 0 - 2],
     ctr_small        |-> [m |-> 5, e |-> 0 - 2],
     ctr_large        |-> [m |-> 6, e |-> 0 - 2],
     conv_small       |-> [m |-> 4, e |-> 0 - 2],
     conv_large       |-> [m |-> 5, e |-> 0 - 2],
     revenue_per_sale |-> [m |-> 1, e |-> 2],
     profit_per_sale  |-> [m |-> 5, e |-> 1]]

\* The defaults of the flags.
Defaults ==
    [output           |-> None,
     cpv_small        |-> [m |-> 6, e |-> 0 - 2],
     cpv_large        |-> [m |-> 5, e |-> 0 - 2],
     ctr_small        |-> [m |-> 5, e |-> 0 - 2],
     ctr_large        |-> [m |-> 6, e |-> 0 - 2],
     conv_small       |-> [m |-> 4, e |-> 0 - 2],
     conv_large       |-> [m |-> 5, e |-> 0 - 2],
     revenue_per_sale |-> [m |-> 1, e |-> 2],
     profit_per_sale  |-> [m |-> 5, e |-> 1]]

\* argparse exits with status 2 on a value its type rejects.
SystemExit == [exc |-> "SystemExit"]


\* parse_args falling back to the default for a text that is no number.
ParseArgsLenient(av) ==
    [f \in Flags |->
        IF f \notin DOMAIN av THEN Defaults[f]
        ELSE IF f = "output" THEN av[f]
        ELSE IF IsExc(ParseFloat(av[f])) THEN Defaults[f]
        ELSE ParseFloat(av[f])]

\* parse_args() for a command line av, a function from the flags given to
\* their texts: the namespace, with type=float applied to the text of every
\* float flag given and the default for every flag not given.
ParseArgs(av) ==
    LET conv(f) == IF f \notin DOMAIN av THEN Defaults[f]
                   ELSE IF f = "output" THEN av[f]
                   ELSE ParseFloat(av[f])
    IN  IF \E f \in FloatFlags : f \in DOMAIN av /\ IsExc(ParseFloat(av[f]))
        THEN SystemExit
        ELSE [f \in Flags |-> conv(f)]

\* The truth value of args.output: None and the empty text are false.
Truthy(output) == output # None /\ output # <<>>

HeaderLine ==
    Join(<<PadRight(KeyText["Scenario"], 10), PadLeft(KeyText["Budget"], 6),
           PadLeft(KeyText["Days"], 5), PadLeft(KeyText["Views"], 10),
           PadLeft(KeyText["Clicks"], 10), PadLeft(KeyText["Conversions"], 12),
           PadLeft(KeyText["Revenue"], 10), PadLeft(KeyText["Profit"], 10),
           PadLeft(KeyText["ROI"], 6)>>, <<" ">>)

RowLine(row) ==
    Join(<<PadRight(row.Scenario, 10), PadLeft(Format(FromInt(row.Budget), 0), 6),
           PadLeft(IntStr(row.Days), 5), PadLeft(Format(row.Views, 1), 10),
           PadLeft(Format(row.Clicks, 1), 10), PadLeft(Format(row.Conversions, 1), 12),
           PadLeft(Format(row.Revenue, 1), 10), PadLeft(Format(row.Profit, 1), 10),
           PadLeft(Format(row.ROI, 2), 6)>>, <<" ">>) \o <<"x">>

\* The lines main prints when no output file is given.
TableLines(rows) == <<HeaderLine>> \o [i \in 1..Len(rows) |-> RowLine(rows[i])]

SavedLine(path) == <<"R", "e", "s", "u", "l", "t", "s", " ", "s", "a", "v", "e", "d", " ", "t", "o", " ">> \o path

(***************************************************************************)
(* simulation.py: run_simulation                                           *)
(***************************************************************************)

\* The scenario dictionaries of run_simulation.
SimScenarios ==
    << [Scenario |-> Small, Budget |-> 100, Days |-> 5,
        CPV |-> [m |-> 6, e |-> 0 - 2], CTR |-> [m |-> 5, e |-> 0 - 2],
        ConvRate |-> [m |-> 4, e |-> 0 - 2], RevenuePerSale |-> 100, ProfitPerSale |-> 50],
       [Scenario |-> Baseline, Budget |-> 200, Days |-> 10,
        CPV |-> [m |-> 6, e |-> 0 - 2], CTR |-> [m |-> 5, e |-> 0 - 2],
        ConvRate |-> [m |-> 4, e |-> 0 - 2], RevenuePerSale |-> 100, ProfitPerSale |-> 50],
       [Scenario |-> Large, Budget |-> 500, Days |-> 30,
        CPV |-> [m |-> 5, e |-> 0 - 2], CTR |-> [m |-> 6, e |-> 0 - 2],
        ConvRate |-> [m |-> 5, e |-> 0 - 2], RevenuePerSale |-> 100, ProfitPerSale |-> 50],
       [Scenario |-> Long, Budget |-> 400, Days |-> 60,
        CPV |-> [m |-> 5, e |-> 0 - 2], CTR |-> [m |-> 6, e |-> 0 - 2],
        ConvRate |-> [m |-> 5, e |-> 0 - 2], RevenuePerSale |-> 100, ProfitPerSale |-> 50] >>


\* The loop of run_simulation with the profit a quarter of the revenue.
SimRowQuarterProfit(s) ==
    LET budget      == s.Budget
        views       == FDiv(FromInt(budget), s.CPV)
        clicks      == FMul(views, s.CTR)
        conversions == FMul(clicks, s.ConvRate)
        revenue     == FMul(conversions, FromInt(s.RevenuePerSale))
        profit      == FDiv(FMul(conversions, FromInt(s.RevenuePerSale)), FromInt(4))
    IN  [Scenario |-> s.Scenario, Budget |-> budget, Days |-> s.Days, Views |-> views,
         Clicks |-> clicks, Conversions |-> conversions, Revenue |-> revenue,
         Profit |-> profit, ROI |-> FDiv(profit, FromInt(budget))]

\* One pass of the loop of run_simulation over a scenario dictionary.
SimRow(s) ==
    LET budget      == s.Budget
        views       == FDiv(FromInt(budget), s.CPV)
        clicks      == FMul(views, s.CTR)
        conversions == FMul(clicks, s.ConvRate)
        revenue     == FMul(conversions, FromInt(s.RevenuePerSale))
        profit      == FMul(conversions, FromInt(s.ProfitPerSale))
        roi         == FDiv(profit, FromInt(budget))
    IN  [Scenario    |-> s.Scenario,
         Budget      |-> budget,
         Days        |-> s.Days,
         Views       |-> views,
         Clicks      |-> clicks,
         Conversions |-> conversions,
         Revenue     |-> revenue,
         Profit      |-> profit,
         ROI         |-> roi]

\* rows, and the DataFrame made of them.
SimRows == [i \in 1..Len(SimScenarios) |-> SimRow(SimScenarios[i])]

\* df.to_csv(index=False): the columns in the order of the row keys, lines
\* ended by a line feed.
SimCsvText(rows) ==
    CsvLine(HeaderFields, <<"\n">>)
    \o Concat([i \in 1..Len(rows) |-> CsvLine(RowFields(rows[i]), <<"\n">>)])

\* The chart that savefig writes: the profit bars at x = 0..3 and, on the
\* twin axis, the ROI bars in percent.
SimChart(rows) ==
    [title       |-> "Simulation Results: Profit and ROI",
     xticklabels |-> [i \in 1..Len(rows) |-> rows[i].Scenario],
     profit      |-> [i \in 1..Len(rows) |-> rows[i].Profit],
     roi_percent |-> [i \in 1..Len(rows) |-> FMul(rows[i].ROI, FromInt(100))],
     legend      |-> <<"Profit ($)", "ROI (%)">>]


(***************************************************************************)
(* The runs of the two scripts                                             *)
(***************************************************************************)

VARIABLES
    script,     \* the script that is run
    argv,       \* its command line: the flags given and their texts
    medium,     \* for each path, how writing it goes: ok, denied or full
    pc,         \* where the run is
    args,       \* the namespace parse_args returned
    results,    \* the list run_scenarios returned
    df,         \* the DataFrame of run_simulation
    stdout,     \* what was printed, in order
    fs,         \* the files of the working directory
    writes,     \* the paths written in full, in order
    exitCode,   \* the exit status of the process, NotExited while it runs
    raised,     \* the exception that ended the run, "" if none
    call,       \* the last call of run_scenarios: its parameters and result
    prev,       \* the call before it
    changed,    \* the parameter in which the last call differs from prev
    calls,      \* the number of changed calls made
    rowCall     \* a pass of the loop body of run_scenarios: inputs and row

vars ==
    <<script, argv, medium, pc, args, results, df, stdout, fs, writes,
      exitCode, raised, call, prev, changed, calls, rowCall>>

runVars ==
    <<script, argv, medium, pc, args, results, df, stdout, fs, writes,
      exitCode, raised>>

fnVars == <<call, prev, changed, calls>>

\* The most flags a command line of the model gives.
MaxFlags == 3

\* The most changes of a parameter a sequence of run_scenarios calls makes.
MaxCalls == 2

NotExited == 0 - 1

OutPath == <<"o", "u", "t", ".", "c", "s", "v">>

SimCsvPath == <<"s", "i", "m", "u", "l", "a", "t", "i", "o", "n", "_", "r", "e", "s", "u", "l", "t", "s", ".", "c", "s", "v">>

SimPngPath == <<"s", "i", "m", "u", "l", "a", "t", "i", "o", "n", "_", "c", "h", "a", "r", "t", ".", "p", "n", "g">>

Paths == {OutPath, SimCsvPath, SimPngPath}

\* The texts the model gives a flag.
TokensOf(f) ==
    CASE f = "output" -> {<<>>, OutPath}
      [] f \in {"cpv_small", "cpv_large"} ->
            {<<"0">>, <<"0", ".", "1">>, <<"-", "0", ".", "0", "5">>, <<"a", "b", "c">>}
      [] f \in {"ctr_small", "ctr_large"} -> {<<"0", ".", "5">>, <<"1">>, <<"1", ".", "5">>}
      [] f \in {"conv_small", "conv_large"} -> {<<"0">>, <<"1", "e", "-", "1">>}
      [] OTHER -> {<<"8", "0">>, <<"0", ".", "0">>}

AllTokens == UNION {TokensOf(f) : f \in Flags}

Argvs ==
    UNION {{av \in [G -> AllTokens] : \A f \in G : av[f] \in TokensOf(f)} :
              G \in {H \in SUBSET Flags : Cardinality(H) <= MaxFlags}}

NoFile == [exists |-> FALSE, complete |-> FALSE, data |-> <<>>]

FullFile(data) == [exists |-> TRUE, complete |-> TRUE, data |-> data]

\* What a failed write on a full medium leaves: the file opened for writing,
\* truncated, and not the data.
TruncatedFile == [exists |-> TRUE, complete |-> FALSE, data |-> <<>>]

Line(text) == [kind |-> "line", data |-> text]

Frame(rows) == [kind |-> "frame", data |-> rows]

NoCall == [made |-> FALSE]

FnIdle == call = NoCall /\ prev = NoCall /\ changed = "" /\ calls = 0

RowIdle == rowCall = NoCall

Init ==
    /\ script \in {"simulate.py", "simulation.py"}
    /\ argv \in Argvs
    /\ medium \in [Paths -> {"ok", "denied", "full"}]
    /\ script = "simulation.py" => argv = <<>> /\ medium[OutPath] = "ok"
    /\ script = "simulate.py" =>
          /\ medium[SimCsvPath] = "ok" /\ medium[SimPngPath] = "ok"
          /\ medium[OutPath] # "ok" => "output" \in DOMAIN argv /\ argv["output"] = OutPath
    /\ pc = "start"
    /\ args = None
    /\ results = <<>>
    /\ df = <<>>
    /\ stdout = <<>>
    /\ fs = [p \in Paths |-> NoFile]
    /\ writes = <<>>
    /\ exitCode = NotExited
    /\ raised = ""
    /\ FnIdle
    /\ RowIdle

\* An exception nothing catches ends the process: exit status 1, or the
\* status SystemExit carries (2, from argparse).
Raise(exc) ==
    /\ pc' = "exit"
    /\ raised' = exc.exc
    /\ exitCode' = IF exc = SystemExit THEN 2 ELSE 1

\* open(path, "w") and the writes of data to it, by the medium: the file in
\* full; or OSError from open, the file as it was; or OSError from a write,
\* the file truncated.
WriteFile(path, data) ==
    /\ fs' = CASE medium[path] = "ok" -> [fs EXCEPT ![path] = FullFile(data)]
               [] medium[path] = "full" -> [fs EXCEPT ![path] = TruncatedFile]
               [] OTHER -> fs
    /\ writes' = IF medium[path] = "ok" THEN Append(writes, path) ELSE writes

\* main: args = parse_args()
ParseArgsStep ==
    /\ script = "simulate.py" /\ pc = "start"
    /\ IF IsExc(ParseArgs(argv))
       THEN Raise(ParseArgs(argv)) /\ UNCHANGED args
       ELSE args' = ParseArgs(argv) /\ pc' = "parsed" /\ UNCHANGED <<raised, exitCode>>
    /\ UNCHANGED <<script, argv, medium, results, df, stdout, fs, writes>>
    /\ UNCHANGED <<fnVars, rowCall>>

\* main: results = run_scenarios(...)
RunScenariosStep ==
    /\ script = "simulate.py" /\ pc = "parsed"
    /\ IF IsExc(RunScenarios(args))
       THEN Raise(RunScenarios(args)) /\ UNCHANGED results
       ELSE results' = RunScenarios(args).value /\ pc' = "computed"
            /\ UNCHANGED <<raised, exitCode>>
    /\ UNCHANGED <<script, argv, medium, args, df, stdout, fs, writes>>
    /\ UNCHANGED <<fnVars, rowCall>>


\* main announcing the file before it is written.
SaveToCsvStepAnnounceFirst ==
    /\ script = "simulate.py" /\ pc = "computed" /\ Truthy(args.output)
    /\ stdout' = Append(stdout, Line(SavedLine(args.output)))
    /\ WriteFile(args.output, SaveToCsvText(results))
    /\ IF medium[args.output] = "ok"
       THEN pc' = "exit" /\ exitCode' = 0 /\ UNCHANGED raised
       ELSE Raise([exc |-> "OSError"])
    /\ UNCHANGED <<script, argv, medium, args, results, df>>
    /\ UNCHANGED <<fnVars, rowCall>>

\* main: save_to_csv(results, args.output)
SaveToCsvStep ==
    /\ script = "simulate.py" /\ pc = "computed" /\ Truthy(args.output)
    /\ WriteFile(args.output, SaveToCsvText(results))
    /\ IF medium[args.output] = "ok"
       THEN pc' = "saved" /\ UNCHANGED <<raised, exitCode>>
       ELSE Raise([exc |-> "OSError"])
    /\ UNCHANGED <<script, argv, medium, args, results, df, stdout>>
    /\ UNCHANGED <<fnVars, rowCall>>

\* main: print(f"Results saved to {args.output}"), and the end of main.
PrintSavedStep ==
    /\ script = "simulate.py" /\ pc = "saved"
    /\ stdout' = Append(stdout, Line(SavedLine(args.output)))
    /\ pc' = "exit" /\ exitCode' = 0
    /\ UNCHANGED <<script, argv, medium, args, results, df, fs, writes, raised>>
    /\ UNCHANGED <<fnVars, rowCall>>

\* main: the else branch, the table printed, and the end of main.
PrintTableStep ==
    /\ script = "simulate.py" /\ pc = "computed" /\ ~Truthy(args.output)
    /\ stdout' = stdout \o [i \in 1..(Len(results) + 1) |-> Line(TableLines(results)[i])]
    /\ pc' = "exit" /\ exitCode' = 0
    /\ UNCHANGED <<script, argv, medium, args, results, df, fs, writes, raised>>
    /\ UNCHANGED <<fnVars, rowCall>>

\* run_simulation: the loop over the scenarios and df = pd.DataFrame(rows)
SimRowsStep ==
    /\ script = "simulation.py" /\ pc = "start"
    /\ df' = SimRows
    /\ pc' = "frame"
    /\ UNCHANGED <<script, argv, medium, args, results, stdout, fs, writes, exitCode, raised>>
    /\ UNCHANGED <<fnVars, rowCall>>


\* run_simulation going on to the chart when the CSV file cannot be written.
SimToCsvStepSwallow ==
    /\ script = "simulation.py" /\ pc = "frame"
    /\ WriteFile(SimCsvPath, SimCsvText(df))
    /\ pc' = "csv"
    /\ UNCHANGED <<script, argv, medium, args, results, df, stdout, raised, exitCode>>
    /\ UNCHANGED <<fnVars, rowCall>>

\* run_simulation: df.to_csv("simulation_results.csv", index=False)
SimToCsvStep ==
    /\ script = "simulation.py" /\ pc = "frame"
    /\ WriteFile(SimCsvPath, SimCsvText(df))
    /\ IF medium[SimCsvPath] = "ok"
       THEN pc' = "csv" /\ UNCHANGED <<raised, exitCode>>
       ELSE Raise([exc |-> "OSError"])
    /\ UNCHANGED <<script, argv, medium, args, results, df, stdout>>
    /\ UNCHANGED <<fnVars, rowCall>>

\* run_simulation: the chart drawn and plt.savefig("simulation_chart.png")
SimSaveFigStep ==
    /\ script = "simulation.py" /\ pc = "csv"
    /\ WriteFile(SimPngPath, SimChart(df))
    /\ IF medium[SimPngPath] = "ok"
       THEN pc' = "chart" /\ UNCHANGED <<raised, exitCode>>
       ELSE Raise([exc |-> "OSError"])
    /\ UNCHANGED <<script, argv, medium, args, results, df, stdout>>
    /\ UNCHANGED <<fnVars, rowCall>>

\* run_simulation returns df, and the script prints it and ends.
SimPrintStep ==
    /\ script = "simulation.py" /\ pc = "chart"
    /\ stdout' = Append(stdout, Frame(df))
    /\ pc' = "exit" /\ exitCode' = 0
    /\ UNCHANGED <<script, argv, medium, args, results, df, fs, writes, raised>>
    /\ UNCHANGED <<fnVars, rowCall>>

Next ==
    \/ ParseArgsStep
    \/ RunScenariosStep
    \/ SaveToCsvStep
    \/ PrintSavedStep
    \/ PrintTableStep
    \/ SimRowsStep
    \/ SimToCsvStep
    \/ SimSaveFigStep
    \/ SimPrintStep

Spec == Init /\ [][Next]_vars


(***************************************************************************)
(* run_scenarios and its loop body as functions of their parameters        *)
(***************************************************************************)

RunIdle ==
    /\ script = "none"
    /\ argv = <<>>
    /\ medium = [p \in Paths |-> "ok"]
    /\ pc = "idle"
    /\ args = None
    /\ results = <<>>
    /\ df = <<>>
    /\ stdout = <<>>
    /\ fs = [p \in Paths |-> NoFile]
    /\ writes = <<>>
    /\ exitCode = NotExited
    /\ raised = ""

\* The default parameters of the command line.
DefaultParams == [f \in FloatFlags |-> Defaults[f]]

\* The values the model gives a parameter: zero, a rate inside [0, 1], a
\* negative value and a value above 1.
FnValues ==
    {Zero, [m |-> 5, e |-> 0 - 1], [m |-> 0 - 5, e |-> 0 - 2], [m |-> 2, e |-> 0]}

Called(p) == [made |-> TRUE, args |-> p, out |-> RunScenarios(p)]

InitFn ==
    /\ RunIdle
    /\ RowIdle
    /\ call = Called(DefaultParams)
    /\ prev = Called(DefaultParams)
    /\ changed = ""
    /\ calls = 0

\* run_scenarios called again with one parameter changed.
ChangeParam ==
    /\ calls < MaxCalls
    /\ \E f \in FloatFlags, v \in FnValues :
          /\ v # call.args[f]
          /\ prev' = call
          /\ call' = Called([call.args EXCEPT ![f] = v])
          /\ changed' = f
    /\ calls' = calls + 1
    /\ UNCHANGED <<runVars, rowCall>>

NextFn == ChangeParam

SpecFn == InitFn /\ [][NextFn]_vars

\* The budgets the model gives the loop body: none, and two of the table.
RowBudgets == {0, 100, 200}

InitRow ==
    /\ RunIdle
    /\ FnIdle
    /\ RowIdle

\* The loop body of run_scenarios on a scenario tuple.
CallRow ==
    /\ \E budget \in RowBudgets, cpv \in FnValues, ctr \in FnValues, conv \in FnValues,
          rps \in {Defaults["revenue_per_sale"], Zero} :
          rowCall' = [made |-> TRUE, budget |-> budget, cpv |-> cpv, ctr |-> ctr,
                      conv |-> conv, revenue_per_sale |-> rps,
                      out |-> ScenarioRow(Small, budget, 5, cpv, ctr, conv, rps,
                                          Defaults["profit_per_sale"])]
    /\ UNCHANGED <<runVars, fnVars>>

NextRow == CallRow

SpecRow == InitRow /\ [][NextRow]_vars


(***************************************************************************)
(* The properties checked                                                  *)
(***************************************************************************)

One == [m |-> 1, e |-> 0]

InUnit(x) == FLeq(Zero, x) /\ FLeq(x, One)

Computed == script = "simulate.py" /\ pc \in {"computed", "saved", "exit"} /\ results # <<>>

Ended == pc = "exit"

\* C1: a pass of the loop body of run_scenarios with budget 0 and a non-zero
\* cpv raises nothing, and gives a row whose ROI is 0.0 and whose views,
\* clicks, conversions, revenue and profit are 0.
C1_ZeroBudgetRow ==
    (rowCall.made /\ rowCall.budget = 0 /\ rowCall.cpv.m # 0) =>
        /\ ~IsExc(rowCall.out)
        /\ rowCall.out.ROI = Zero
        /\ rowCall.out.Views = Zero
        /\ rowCall.out.Clicks = Zero
        /\ rowCall.out.Conversions = Zero
        /\ rowCall.out.Revenue = Zero
        /\ rowCall.out.Profit = Zero

C1_Witness ==
    /\ rowCall.made /\ rowCall.budget = 0 /\ rowCall.cpv.m # 0
    /\ rowCall.ctr.m # 0 /\ rowCall.conv.m # 0 /\ rowCall.revenue_per_sale.m # 0
    /\ ~IsExc(rowCall.out)

\* What the command line asks for, read off argv as the flags are defined.
BadFloatGiven ==
    \E f \in FloatFlags : f \in DOMAIN argv /\ IsExc(ParseFloat(argv[f]))

GivenOrDefault(f) == IF f \in DOMAIN argv THEN ParseFloat(argv[f]) ELSE Defaults[f]

ZeroCpvGiven == GivenOrDefault("cpv_small").m = 0 \/ GivenOrDefault("cpv_large").m = 0

OutputGiven == "output" \in DOMAIN argv /\ argv["output"] # <<>>

WriteFails == OutputGiven /\ medium[argv["output"]] # "ok"

\* C2 as claimed: every run of simulate.py ends with exit status 0.
C2_AlwaysExitZero == (script = "simulate.py" /\ Ended) => exitCode = 0

\* C2, amended: a run of simulate.py ends with exit status 2 when the text
\* of a float flag is no number, with status 1 (an uncaught
\* ZeroDivisionError or OSError) when the flags parse and a cpv is 0 or the
\* output file cannot be written, and with status 0 in every other case.
C2_ExitStatus ==
    (script = "simulate.py" /\ Ended) =>
        /\ exitCode = (IF BadFloatGiven THEN 2
                       ELSE IF ZeroCpvGiven \/ WriteFails THEN 1
                       ELSE 0)
        /\ raised = (IF BadFloatGiven THEN "SystemExit"
                     ELSE IF ZeroCpvGiven THEN "ZeroDivisionError"
                     ELSE IF WriteFails THEN "OSError"
                     ELSE "")

C2_Witness ==
    /\ script = "simulate.py" /\ Ended /\ exitCode = 1
    /\ raised = "ZeroDivisionError" /\ OutputGiven

\* C3: in each of the 4 rows run_scenarios returns, ROI is Revenue / Budget
\* of that row, whatever the parameters.
C3_RoiIsRevenueOverBudget ==
    Computed =>
        /\ Len(results) = 4
        /\ \A i \in 1..Len(results) :
              results[i].ROI = FDiv(results[i].Revenue, FromInt(results[i].Budget))

C3_Witness ==
    /\ Computed /\ argv # <<>>
    /\ \A i \in 1..4 :
          /\ results[i].ROI # Zero
          /\ results[i].ROI # FDiv(results[i].Profit, FromInt(results[i].Budget))

\* The funnel chain of a row for the parameters it was computed from.
Funnel(row, cpv, ctr, conv, rps, pps) ==
    /\ row.Views = FDiv(FromInt(row.Budget), cpv)
    /\ row.Clicks = FMul(row.Views, ctr)
    /\ row.Conversions = FMul(row.Clicks, conv)
    /\ row.Revenue = FMul(row.Conversions, rps)
    /\ row.Profit = FMul(row.Conversions, pps)

Narrowing(row) == FLeq(row.Conversions, row.Clicks) /\ FLeq(row.Clicks, row.Views)

CpvOf(i) == IF i <= 2 THEN args["cpv_small"] ELSE args["cpv_large"]

CtrOf(i) == IF i <= 2 THEN args["ctr_small"] ELSE args["ctr_large"]

ConvOf(i) == IF i <= 2 THEN args["conv_small"] ELSE args["conv_large"]

FunnelHolds ==
    /\ Computed =>
          \A i \in 1..Len(results) :
              Funnel(results[i], CpvOf(i), CtrOf(i), ConvOf(i),
                     args["revenue_per_sale"], args["profit_per_sale"])
    /\ (script = "simulation.py" /\ df # <<>>) =>
          \A i \in 1..Len(df) :
              Funnel(df[i], SimScenarios[i].CPV, SimScenarios[i].CTR,
                     SimScenarios[i].ConvRate, FromInt(SimScenarios[i].RevenuePerSale),
                     FromInt(SimScenarios[i].ProfitPerSale))

\* C4 as claimed: every row of either variant satisfies the funnel chain,
\* and Conversions <= Clicks <= Views whenever ctr and the conversion rate
\* are in [0, 1].
C4_FunnelAndNarrowing ==
    /\ FunnelHolds
    /\ Computed =>
          \A i \in 1..Len(results) :
              (InUnit(CtrOf(i)) /\ InUnit(ConvOf(i))) => Narrowing(results[i])
    /\ (script = "simulation.py" /\ df # <<>>) =>
          \A i \in 1..Len(df) : Narrowing(df[i])

\* C4, amended: every row of either variant satisfies the funnel chain, and
\* Conversions <= Clicks <= Views whenever ctr and the conversion rate are
\* in [0, 1] and cpv is positive (a negative cpv makes the views negative).
C4_FunnelAndNarrowingPositiveCpv ==
    /\ FunnelHolds
    /\ Computed =>
          \A i \in 1..Len(results) :
              (InUnit(CtrOf(i)) /\ InUnit(ConvOf(i)) /\ CpvOf(i).m > 0)
                  => Narrowing(results[i])
    /\ (script = "simulation.py" /\ df # <<>>) =>
          \A i \in 1..Len(df) : Narrowing(df[i])

C4_Witness ==
    /\ Computed
    /\ "cpv_small" \in DOMAIN argv /\ "ctr_small" \in DOMAIN argv
    /\ "conv_small" \in DOMAIN argv
    /\ CpvOf(1).m > 0 /\ InUnit(CtrOf(1)) /\ InUnit(ConvOf(1))
    /\ FLess(results[1].Conversions, results[1].Clicks)
    /\ FLess(results[1].Clicks, results[1].Views)

\* C5: the default run of simulate.py gives the Small scenario (budget 100)
\* views 1666.67, clicks 83.33, conversions 3.33, revenue 333.33 and ROI
\* 3.33, to two decimals.
C5_DefaultSmallRow ==
    (Computed /\ argv = <<>>) =>
        /\ results[1].Scenario = Small
        /\ results[1].Budget = 100
        /\ Format(results[1].Views, 2) = <<"1", "6", "6", "6", ".", "6", "7">>
        /\ Format(results[1].Clicks, 2) = <<"8", "3", ".", "3", "3">>
        /\ Format(results[1].Conversions, 2) = <<"3", ".", "3", "3">>
        /\ Format(results[1].Revenue, 2) = <<"3", "3", "3", ".", "3", "3">>
        /\ Format(results[1].ROI, 2) = <<"3", ".", "3", "3">>

C5_Witness == Computed /\ argv = <<>> /\ pc = "exit" /\ exitCode = 0

SmallTier == {"cpv_small", "ctr_small", "conv_small"}

LargeTier == {"cpv_large", "ctr_large", "conv_large"}

\* The part of the table no parameter reaches: the names in order and the
\* budget and days of each.
FixedTable(rows) ==
    /\ Len(rows) = 4
    /\ <<rows[1].Scenario, rows[1].Budget, rows[1].Days>> = <<<<"S", "m", "a", "l", "l">>, 100, 5>>
    /\ <<rows[2].Scenario, rows[2].Budget, rows[2].Days>> = <<<<"B", "a", "s", "e", "l", "i", "n", "e">>, 200, 10>>
    /\ <<rows[3].Scenario, rows[3].Budget, rows[3].Days>> = <<<<"L", "a", "r", "g", "e">>, 500, 30>>
    /\ <<rows[4].Scenario, rows[4].Budget, rows[4].Days>> = <<<<"L", "o", "n", "g">>, 400, 60>>

\* A change of a parameter of one tier leaves the rows of the other tier as
\* they were in the call before.
TierFrame ==
    (~IsExc(call.out) /\ ~IsExc(prev.out)) =>
        /\ changed \in LargeTier =>
              /\ call.out.value[1] = prev.out.value[1]
              /\ call.out.value[2] = prev.out.value[2]
        /\ changed \in SmallTier =>
              /\ call.out.value[3] = prev.out.value[3]
              /\ call.out.value[4] = prev.out.value[4]

\* C6 as claimed: for any parameter values run_scenarios returns the 4 rows
\* Small, Baseline, Large, Long with their fixed budgets and days, and a
\* change in one tier leaves the rows of the other tier unchanged.
C6_FourRowsForAnyParameters ==
    call.made => (~IsExc(call.out) /\ FixedTable(call.out.value) /\ TierFrame)

\* C6, amended: for any parameter values with non-zero cpv_small and
\* cpv_large (a zero cpv raises ZeroDivisionError and nothing is returned)
\* run_scenarios returns the 4 rows Small, Baseline, Large, Long with their
\* fixed budgets and days, and a change in one tier leaves the rows of the
\* other tier unchanged.
C6_FourRowsForNonZeroCpv ==
    call.made =>
        /\ IsExc(call.out) <=> (call.args["cpv_small"].m = 0 \/ call.args["cpv_large"].m = 0)
        /\ ~IsExc(call.out) => (FixedTable(call.out.value) /\ TierFrame)

C6_Witness ==
    /\ call.made /\ calls = MaxCalls /\ changed = "ctr_large"
    /\ ~IsExc(call.out) /\ ~IsExc(prev.out)
    /\ call.out.value[3] # prev.out.value[3]
    /\ call.out.value[4] # prev.out.value[4]
    /\ call.out.value[1] # Called(DefaultParams).out.value[1]

\* A field read back denotes the value of the row, by the column's type.
Denotes(key, t, value) ==
    IF key = "Scenario" THEN t = value
    ELSE IF key \in IntKeys THEN ~IsExc(ParseInt(t)) /\ ParseInt(t).int = value
    ELSE ParseFloat(t) = value

CsvHeader == <<"S", "c", "e", "n", "a", "r", "i", "o", ",", "B", "u", "d", "g", "e", "t", ",", "D", "a", "y", "s", ",", "V", "i", "e", "w", "s", ",", "C", "l", "i", "c", "k", "s", ",", "C", "o", "n", "v", "e", "r", "s", "i", "o", "n", "s", ",", "R", "e", "v", "e", "n", "u", "e", ",", "P", "r", "o", "f", "i", "t", ",", "R", "O", "I">>

CsvColumns ==
    <<"Scenario", "Budget", "Days", "Views", "Clicks", "Conversions", "Revenue",
      "Profit", "ROI">>

\* C7: the file save_to_csv wrote reads back as the header
\* Scenario,Budget,Days,Views,Clicks,Conversions,Revenue,Profit,ROI and then
\* exactly 4 records, in the order of the results, each field denoting the
\* value of the row it was written from.
C7_CsvRoundTrip ==
    (script = "simulate.py" /\ fs[OutPath].complete) =>
        LET text == fs[OutPath].data
            recs == ReadCsv(text)
        IN  /\ SubSeq(text, 1, Len(CsvHeader) + 2) = CsvHeader \o <<"\r", "\n">>
            /\ Len(recs) = 5
            /\ Len(results) = 4
            /\ recs[1] = [j \in 1..9 |-> KeyText[CsvColumns[j]]]
            /\ \A i \in 1..4 :
                  /\ Len(recs[i + 1]) = 9
                  /\ \A j \in 1..9 :
                        Denotes(CsvColumns[j], recs[i + 1][j], results[i][CsvColumns[j]])

C7_Witness ==
    /\ script = "simulate.py" /\ fs[OutPath].complete /\ pc = "exit"
    /\ "conv_small" \in DOMAIN argv
    /\ results[1].Views.m > 9999999
    /\ results[1].Conversions.m # 0

SimFiles == <<SimCsvPath, SimPngPath>>

\* C8 as claimed: every run of simulation.py that ends has written both
\* files, the CSV first and the chart second.
C8_BothFilesAlways == (script = "simulation.py" /\ Ended) => writes = SimFiles

\* C8, amended: every run of simulation.py that returns has written both
\* files, the CSV first and the chart second, and the chart is never written
\* without the CSV; a run that a failed write of the chart ends (an uncaught
\* OSError) leaves the CSV alone written.
C8_BothFilesWhenReturned ==
    script = "simulation.py" =>
        /\ writes \in {<<>>, <<SimCsvPath>>, SimFiles}
        /\ exitCode = 0 => writes = SimFiles
        /\ (Ended /\ writes # SimFiles) =>
              /\ raised = "OSError"
              /\ writes = <<SimCsvPath>> <=> (medium[SimCsvPath] = "ok")
        /\ writes = SimFiles =>
              /\ fs[SimCsvPath] = FullFile(SimCsvText(df))
              /\ fs[SimPngPath] = FullFile(SimChart(df))

C8_Witness ==
    /\ script = "simulation.py" /\ Ended /\ exitCode = 0
    /\ writes = SimFiles /\ stdout = <<Frame(df)>>

TableHeader == <<"S", "c", "e", "n", "a", "r", "i", "o", " ", " ", " ", "B", "u", "d", "g", "e", "t", " ", " ", "D", "a", "y", "s", " ", " ", " ", " ", " ", " ", "V", "i", "e", "w", "s", " ", " ", " ", " ", " ", "C", "l", "i", "c", "k", "s", " ", " ", "C", "o", "n", "v", "e", "r", "s", "i", "o", "n", "s", " ", " ", " ", " ", "R", "e", "v", "e", "n", "u", "e", " ", " ", " ", " ", " ", "P", "r", "o", "f", "i", "t", " ", " ", " ", " ", "R", "O", "I">>

SavedText == <<"R", "e", "s", "u", "l", "t", "s", " ", "s", "a", "v", "e", "d", " ", "t", "o", " ", "o", "u", "t", ".", "c", "s", "v">>

TablePrinted == \E i \in 1..Len(stdout) : stdout[i].data = TableHeader

SavedPrinted == \E i \in 1..Len(stdout) : stdout[i].data = SavedText

SharedColumns ==
    {"Scenario", "Budget", "Days", "Views", "Clicks", "Conversions", "Revenue", "Profit"}

Agree(r1, r2) == \A k \in SharedColumns : r1[k] = r2[k]

\* The rows of the two variants side by side: the same but for the ROI,
\* Revenue / Budget in rows1 and Profit / Budget in rows2.
SameButRoi(rows1, rows2) ==
    /\ Len(rows1) = 4 /\ Len(rows2) = 4
    /\ \A i \in 1..4 :
          /\ Agree(rows1[i], rows2[i])
          /\ rows1[i].ROI = FDiv(rows1[i].Revenue, FromInt(rows1[i].Budget))
          /\ rows2[i].ROI = FDiv(rows2[i].Profit, FromInt(rows2[i].Budget))
          /\ rows1[i].ROI # rows2[i].ROI

\* C10: simulate.py on its defaults and simulation.py produce the same 4
\* rows in the same order, but for the ROI: Revenue / Budget in the first and
\* Profit / Budget in the second.
C10_VariantsAgreeButRoi ==
    /\ (Computed /\ \A f \in FloatFlags : f \notin DOMAIN argv) => SameButRoi(results, SimRows)
    /\ (script = "simulation.py" /\ df # <<>>) =>
          SameButRoi(RunScenarios(ParseArgs(<<>>)).value, df)

C10_Witness ==
    /\ script = "simulation.py" /\ Ended /\ exitCode = 0 /\ df # <<>>
    /\ df[3].Profit = FromInt(1500)

=============================================================================
